---- MODULE Spec2Model ----
(***************************************************************************)
(* Task manager canister (src/src/index.ts): two keyed stores, the update  *)
(* calls that change them and the query calls that read them.  Every call  *)
(* runs to completion; a call reads one caller identity and one time.      *)
(***************************************************************************)
EXTENDS Integers, Sequences, FiniteSets, TLC

(***************************************************************************)
(* Bounds of the model.                                                    *)
(***************************************************************************)
\* identifiers the uuid supplier hands out in one run
MaxIds == 2
\* whole minutes the clock may advance
MaxMinutes == 1
\* calls the canister receives in one run
MaxCalls == 3

(***************************************************************************)
(* Texts are sequences of character codes, so that toLowerCase is computed *)
(* and not assumed.                                                        *)
(***************************************************************************)
Txt_Empty == << >>
Txt_Created == <<67, 114, 101, 97, 116, 101, 100>>
Txt_Completed == <<67, 111, 109, 112, 108, 101, 116, 101, 100>>
Txt_completed == <<99, 111, 109, 112, 108, 101, 116, 101, 100>>
Txt_COMPLETED == <<67, 79, 77, 80, 76, 69, 84, 69, 68>>
Txt_Ab == <<65, 98>>
Txt_B == <<66>>
Txt_x == <<120>>
Txt_aB == <<97, 66>>
Txt_w == <<119>>
Txt_h == <<104>>

\* String.prototype.toLowerCase on the ASCII range
LowerChar(c) == IF c >= 65 /\ c <= 90 THEN c + 32 ELSE c
toLowerCase(s) == [i \in 1..Len(s) |-> LowerChar(s[i])]

\* !s for a string s: only the empty string is falsy
StrFalsy(s) == Len(s) = 0

(***************************************************************************)
(* bigint: unbounded in the program.  A value v is kept as two limbs,      *)
(* v = hi * 10^9 + lo with 0 <= lo < 10^9, so that the nanosecond          *)
(* constant of the program is represented exactly.                         *)
(***************************************************************************)
Limb == 10^9
BigNorm(h, l) == [hi |-> h + (l \div Limb), lo |-> l % Limb]
BigAdd(a, b) == BigNorm(a.hi + b.hi, a.lo + b.lo)
\* a * b for a of magnitude below one limb (every duration of the model)
BigMul(a, b) == LET k == a.hi * Limb + a.lo IN BigNorm(k * b.hi, k * b.lo)
BigLt(a, b) == a.hi < b.hi \/ (a.hi = b.hi /\ a.lo < b.lo)
\* BigInt(60000000000)
NanosPerMinute == BigNorm(60, 0)

(***************************************************************************)
(* number (float64): NaN, or a multiple of one half.                       *)
(***************************************************************************)
Num(h) == [nan |-> FALSE, halves |-> h]
NaN == [nan |-> TRUE, halves |-> 0]
\* !n for a number n: 0 and NaN are falsy
NumFalsy(n) == n.nan \/ n.halves = 0
\* BigInt(n) throws a RangeError unless n is an integer
BigIntThrows(n) == n.nan \/ n.halves % 2 # 0
BigInt(n) == BigNorm(0, n.halves \div 2)

(***************************************************************************)
(* Opt and Result values of the canister framework.                        *)
(***************************************************************************)
None == [tag |-> "None"]
Some(v) == [tag |-> "Some", val |-> v]
\* !o for an Opt value o: Some and None are both objects, and an object is
\* never falsy
OptFalsy(o) == FALSE

NoRef == 0
Ok(v) == [tag |-> "Ok", msg |-> "", ref |-> NoRef, val |-> v]
Err(m, r) == [tag |-> "Err", msg |-> m, ref |-> r, val |-> None]
\* an exception that leaves the call: the call is rejected, its writes undone
Trap(m) == [tag |-> "Trap", msg |-> m, ref |-> NoRef, val |-> None]

MsgInvalid == "Missing or invalid input data"
MsgNotAuthorized == "Only authorized user can access Task"
MsgTaskNotFound == "Task id:${id} not found"
MsgEmployeeNotFound == "Employee id:${id} not found"
MsgCouldNotCreateTask == "could not create Task:${title}"
MsgNoTasks == "No tasks found, please add one"
MsgNoPastDue == "No tasks past due date"
MsgRangeError == "RangeError: cannot be converted to a BigInt"
MsgNoEmployees == "No employees found, please add one"
MsgNoSearchResult == "No tasks found by this search query"
MsgNoTasksInCategory == "No tasks in this category"
MsgMissingStatus == "Missing status input"
MsgNoTasksWithStatus == "No tasks with this status"
MsgNoTasksForEmployee == "No tasks found for this employee, please add one"
MsgAnalysis == "${percentageCompleted}% of tasks are completed, ${percentagePastDue}% of tasks are past due"
\* a handler that returns a plain text, not a Result
Text(m, v) == [tag |-> "Text", msg |-> m, ref |-> NoRef, val |-> v]

(***************************************************************************)
(* Inputs.                                                                 *)
(***************************************************************************)
Principals == {"alice", "bob"}
\* Principal.toString: the textual form, one per principal
PrincipalToString(p) == <<"principal", p>>

Ids == 1..MaxIds
\* the caller of a handler that never reads ic.caller(): one stands for all
AnyCaller == {"bob"}

Payload(t, d, c, n) == [title |-> t, description |-> d, category |-> c, due_in_minutes |-> n]
\* two well-formed payloads (one minute ahead, one minute back) and one
\* payload for each way of being malformed
PayloadAhead == Payload(Txt_Ab, Txt_x, Txt_w, Num(2))
PayloadBack == Payload(Txt_B, Txt_aB, Txt_h, Num(-2))
PayloadNoTitle == Payload(Txt_Empty, Txt_x, Txt_w, Num(2))
PayloadNoDescription == Payload(Txt_Ab, Txt_Empty, Txt_w, Num(2))
PayloadZero == Payload(Txt_Ab, Txt_x, Txt_w, Num(0))
PayloadNaN == Payload(Txt_Ab, Txt_x, Txt_w, NaN)
PayloadFraction == Payload(Txt_Ab, Txt_x, Txt_w, Num(3))
TaskPayloads ==
    { PayloadAhead, PayloadBack, PayloadNoTitle, PayloadNoDescription,
      PayloadZero, PayloadNaN, PayloadFraction }
UpdatePayloads == { PayloadBack, PayloadNoTitle, PayloadFraction }

EmployeePayloads ==
    { [name |-> Txt_Ab, email |-> Txt_x],
      [name |-> Txt_Empty, email |-> Txt_x],
      [name |-> Txt_Ab, email |-> Txt_Empty] }

StatusInputs == {Txt_COMPLETED, Txt_Created, Txt_Empty}
\* arguments of the queries by status, by category and by text
StatusQueries == {Txt_completed, Txt_COMPLETED, Txt_Created, Txt_Empty}
Categories == {Txt_w, Txt_h}
SearchInputs == {Txt_B, Txt_x}

(***************************************************************************)
(* State.                                                                  *)
(***************************************************************************)
VARIABLES
    taskStorage,      \* id -> Task
    employeeStorage,  \* id -> Employee
    nextId,           \* the uuid supplier: the next identifier it returns
    now,              \* ic.time(), nanoseconds
    last,             \* the most recent call and what it returned
    calls,            \* how many calls the canister has received
    created,          \* history: ids of the tasks addTask has stored
    deleted,          \* history: ids of the tasks deleteTask has removed
    assignedTo,       \* history: task id -> employee id of its latest successful assignEmployee
    again             \* history: the call before last was a successful completedTask
                      \* and the last call is completedTask of the same task by the same caller

vars == <<taskStorage, employeeStorage, nextId, now, last, calls, created, deleted, assignedTo, again>>

\* a call: the method, ic.caller(), the task or employee id it is about (NoRef
\* when it has none), its other argument (NoArg when it has none), the reply
NoArg == << >>
Call(op, caller, id, arg, res) == [op |-> op, caller |-> caller, id |-> id, arg |-> arg, res |-> res]

\* a supplier that hands out again an identifier no record holds any more
uuidv4Recycled == CHOOSE i \in Ids : i \notin (DOMAIN taskStorage \cup DOMAIN employeeStorage) /\ \A j \in Ids : j < i => j \in (DOMAIN taskStorage \cup DOMAIN employeeStorage)
\* uuidv4(): the supplier is taken to return a fresh identifier at every use
uuidv4 == nextId

\* StableBTreeMap.get: an Opt
MapGet(map, key) == IF key \in DOMAIN map THEN Some(map[key]) ELSE None
\* StableBTreeMap.insert: insert or replace
MapInsert(map, key, value) == [k \in DOMAIN map \cup {key} |-> IF k = key THEN value ELSE map[k]]
\* remove that leaves the entry in place
MapRemoveKeeps(map, key) == map
\* StableBTreeMap.remove
MapRemove(map, key) == [k \in DOMAIN map \ {key} |-> map[k]]
\* StableBTreeMap.values: the values in key order (Array.prototype.filter on
\* the result is SelectSeq)
MapValues(map) ==
    LET InMap(k) == k \in DOMAIN map
        keys == SelectSeq([k \in 1..MaxIds |-> k], InMap)
    IN [i \in 1..Len(keys) |-> map[keys[i]]]

StartTime == BigNorm(1700000000, 123456789)

Init ==
    /\ taskStorage = << >>
    /\ employeeStorage = << >>
    /\ nextId = 1
    /\ now = StartTime
    /\ last = Call("init", "alice", NoRef, NoArg, Ok(None))
    /\ calls = 0
    /\ created = {}
    /\ deleted = {}
    /\ assignedTo = << >>
    /\ again = FALSE

(***************************************************************************)
(* The clock: time never goes back between calls.                          *)
(***************************************************************************)
Tick ==
    /\ now.hi < StartTime.hi + NanosPerMinute.hi * MaxMinutes
    /\ now' = BigAdd(now, NanosPerMinute)
    /\ UNCHANGED <<taskStorage, employeeStorage, nextId, last, calls, created, deleted, assignedTo, again>>

(***************************************************************************)
(* addTask                                                                 *)
(***************************************************************************)
NewTask(id, caller, payload, time) ==
    [ id |-> id,
      title |-> payload.title,
      creator |-> caller,
      description |-> payload.description,
      created_date |-> time,
      updated_at |-> None,
      status |-> Txt_Created,
      employeeId |-> None,
      category |-> payload.category,
      due_in_minutes |-> BigAdd(BigMul(BigInt(payload.due_in_minutes), NanosPerMinute), time) ]

\* the input check without its test of the duration
AddTaskInvalidNoDuration(payload) == StrFalsy(payload.title) \/ StrFalsy(payload.description)
AddTaskInvalid(payload) ==
    StrFalsy(payload.title) \/ StrFalsy(payload.description) \/ NumFalsy(payload.due_in_minutes)

addTask(caller, payload) ==
    IF AddTaskInvalid(payload)
    THEN /\ last' = Call("addTask", caller, NoRef, payload, Err(MsgInvalid, NoRef))
         /\ UNCHANGED <<taskStorage, employeeStorage, nextId, now, created, deleted>>
    ELSE /\ nextId <= MaxIds
         /\ nextId' = nextId + 1
         /\ IF BigIntThrows(payload.due_in_minutes)
            THEN /\ last' = Call("addTask", caller, NoRef, payload, Err(MsgCouldNotCreateTask, NoRef))
                 /\ UNCHANGED <<taskStorage, employeeStorage, now, created, deleted>>
            ELSE LET newTask == NewTask(uuidv4, caller, payload, now)
                 IN /\ taskStorage' = MapInsert(taskStorage, newTask.id, newTask)
                    /\ created' = created \cup {newTask.id}
                    /\ last' = Call("addTask", caller, newTask.id, payload, Ok(newTask))
                    /\ UNCHANGED <<employeeStorage, now, deleted>>

(***************************************************************************)
(* addEmployee                                                             *)
(***************************************************************************)
AddEmployeeInvalid(payload) == StrFalsy(payload.name) \/ StrFalsy(payload.email)

addEmployee(caller, payload) ==
    IF AddEmployeeInvalid(payload)
    THEN /\ last' = Call("addEmployee", caller, NoRef, payload, Err(MsgInvalid, NoRef))
         /\ UNCHANGED <<taskStorage, employeeStorage, nextId, now, created, deleted>>
    ELSE /\ nextId <= MaxIds
         /\ LET newEmployee == [id |-> uuidv4, name |-> payload.name, email |-> payload.email]
            IN /\ employeeStorage' = MapInsert(employeeStorage, newEmployee.id, newEmployee)
               /\ last' = Call("addEmployee", caller, newEmployee.id, payload, Ok(newEmployee))
         /\ nextId' = nextId + 1
         /\ UNCHANGED <<taskStorage, now, created, deleted>>

(***************************************************************************)
(* The ownership test every task call but getAllTasks makes.               *)
(***************************************************************************)
\* a handler that leaves the ownership test out
NotCreatorUnchecked(task, caller) == FALSE
NotCreator(task, caller) == PrincipalToString(task.creator) # PrincipalToString(caller)

\* a call that returns res and writes nothing
Reply(op, caller, id, arg, res) ==
    /\ last' = Call(op, caller, id, arg, res)
    /\ UNCHANGED <<taskStorage, employeeStorage, nextId, now, created, deleted>>

\* a call that writes task under its id and returns it
Store(op, caller, arg, task) ==
    /\ taskStorage' = MapInsert(taskStorage, task.id, task)
    /\ last' = Call(op, caller, task.id, arg, Ok(task))
    /\ UNCHANGED <<employeeStorage, nextId, now, created, deleted>>

(***************************************************************************)
(* assignEmployee                                                          *)
(***************************************************************************)
\* an assignment that keeps the assignee a task already has
AssignedTaskKeepsFirst(task, employeeId) ==
    IF task.employeeId.tag = "Some" THEN task ELSE [task EXCEPT !.employeeId = Some(employeeId)]
AssignedTask(task, employeeId) == [task EXCEPT !.employeeId = Some(employeeId)]

assignEmployee(caller, taskId, employeeId) ==
    LET found == MapGet(taskStorage, taskId) IN
    IF found.tag = "None"
    THEN Reply("assignEmployee", caller, taskId, employeeId, Err(MsgTaskNotFound, taskId))
    ELSE LET task == found.val
             employee == MapGet(employeeStorage, employeeId)
         IN IF NotCreator(task, caller)
            THEN Reply("assignEmployee", caller, taskId, employeeId, Err(MsgNotAuthorized, NoRef))
            ELSE IF OptFalsy(employee)
                 THEN Reply("assignEmployee", caller, taskId, employeeId, Err(MsgEmployeeNotFound, employeeId))
                 ELSE Store("assignEmployee", caller, employeeId, AssignedTask(task, employeeId))

(***************************************************************************)
(* completedTask                                                           *)
(***************************************************************************)
CompleteTask(task) == [task EXCEPT !.status = Txt_Completed]

\* a completedTask that refuses a task whose status is "Completed" already
completedTaskOnce(caller, id) ==
    LET found == MapGet(taskStorage, id) IN
    IF found.tag = "None"
    THEN Reply("completedTask", caller, id, NoArg, Err(MsgTaskNotFound, id))
    ELSE IF NotCreator(found.val, caller)
         THEN Reply("completedTask", caller, id, NoArg, Err(MsgNotAuthorized, NoRef))
         ELSE IF found.val.status = Txt_Completed
              THEN Reply("completedTask", caller, id, NoArg, Err(MsgInvalid, NoRef))
              ELSE Store("completedTask", caller, NoArg, CompleteTask(found.val))

completedTask(caller, id) ==
    LET found == MapGet(taskStorage, id) IN
    IF found.tag = "None"
    THEN Reply("completedTask", caller, id, NoArg, Err(MsgTaskNotFound, id))
    ELSE IF NotCreator(found.val, caller)
         THEN Reply("completedTask", caller, id, NoArg, Err(MsgNotAuthorized, NoRef))
         ELSE Store("completedTask", caller, NoArg, CompleteTask(found.val))

(***************************************************************************)
(* updateTask                                                              *)
(***************************************************************************)
\* an update that extends the stored due timestamp instead of replacing it
UpdatedTaskCumulative(task, payload, time) ==
    [task EXCEPT
        !.title = payload.title,
        !.description = payload.description,
        !.category = payload.category,
        !.due_in_minutes = BigAdd(BigMul(BigInt(payload.due_in_minutes), NanosPerMinute), task.due_in_minutes),
        !.updated_at = Some(time)]
\* { ...payload, ...task, ... }: the stored fields win over the payload's
UpdatedTaskSpreadReversed(task, payload, time) ==
    [task EXCEPT
        !.due_in_minutes = BigAdd(BigMul(BigInt(payload.due_in_minutes), NanosPerMinute), time),
        !.updated_at = Some(time)]
\* an update that stamps created_date as well as updated_at
UpdatedTaskRecreated(task, payload, time) ==
    [task EXCEPT
        !.title = payload.title,
        !.description = payload.description,
        !.category = payload.category,
        !.due_in_minutes = BigAdd(BigMul(BigInt(payload.due_in_minutes), NanosPerMinute), time),
        !.created_date = time,
        !.updated_at = Some(time)]
\* { ...task, ...payload, due_in_minutes: ..., updated_at: ... }
UpdatedTask(task, payload, time) ==
    [task EXCEPT
        !.title = payload.title,
        !.description = payload.description,
        !.category = payload.category,
        !.due_in_minutes = BigAdd(BigMul(BigInt(payload.due_in_minutes), NanosPerMinute), time),
        !.updated_at = Some(time)]

updateTask(caller, id, payload) ==
    LET found == MapGet(taskStorage, id) IN
    IF found.tag = "None"
    THEN Reply("updateTask", caller, id, payload, Err(MsgTaskNotFound, id))
    ELSE IF NotCreator(found.val, caller)
         THEN Reply("updateTask", caller, id, payload, Err(MsgNotAuthorized, NoRef))
         ELSE IF BigIntThrows(payload.due_in_minutes)
              THEN Reply("updateTask", caller, id, payload, Trap(MsgRangeError))
              ELSE Store("updateTask", caller, payload, UpdatedTask(found.val, payload, now))

(***************************************************************************)
(* deleteTask                                                              *)
(***************************************************************************)
deleteTask(caller, id) ==
    LET found == MapGet(taskStorage, id) IN
    IF found.tag = "None"
    THEN Reply("deleteTask", caller, id, NoArg, Err(MsgTaskNotFound, id))
    ELSE IF NotCreator(found.val, caller)
         THEN Reply("deleteTask", caller, id, NoArg, Err(MsgNotAuthorized, NoRef))
         ELSE /\ taskStorage' = MapRemove(taskStorage, id)
              /\ deleted' = deleted \cup {id}
              /\ last' = Call("deleteTask", caller, id, NoArg, Ok(found.val))
              /\ UNCHANGED <<employeeStorage, nextId, now, created>>

(***************************************************************************)
(* updateTaskStatus                                                        *)
(***************************************************************************)
StatusTask(task, statusUpdate) == [task EXCEPT !.status = statusUpdate]

updateTaskStatus(caller, id, statusUpdate) ==
    LET found == MapGet(taskStorage, id) IN
    IF found.tag = "None"
    THEN Reply("updateTaskStatus", caller, id, statusUpdate, Err(MsgTaskNotFound, id))
    ELSE IF NotCreator(found.val, caller)
         THEN Reply("updateTaskStatus", caller, id, statusUpdate, Err(MsgNotAuthorized, NoRef))
         ELSE Store("updateTaskStatus", caller, statusUpdate, StatusTask(found.val, statusUpdate))

(***************************************************************************)
(* Queries: each computes its result from the stores and writes nothing.   *)
(***************************************************************************)
getAllTasksResult ==
    LET tasks == MapValues(taskStorage)
    IN IF Len(tasks) = 0 THEN Err(MsgNoTasks, NoRef) ELSE Ok(tasks)

\* a getAllTasks that returns only the tasks its caller created
getAllTasksOwn(caller) ==
    LET Own(task) == ~NotCreator(task, caller)
        tasks == SelectSeq(MapValues(taskStorage), Own)
    IN Reply("getAllTasks", caller, NoRef, NoArg,
             IF Len(tasks) = 0 THEN Err(MsgNoTasks, NoRef) ELSE Ok(tasks))
getAllTasks(caller) == Reply("getAllTasks", caller, NoRef, NoArg, getAllTasksResult)

getTaskByIdResult(caller, id) ==
    LET found == MapGet(taskStorage, id) IN
    IF found.tag = "None"
    THEN Err(MsgTaskNotFound, id)
    ELSE IF NotCreator(found.val, caller)
         THEN Err(MsgNotAuthorized, NoRef)
         ELSE Ok(found.val)

\* a getTaskById that stamps the task it returns
getTaskByIdStamps(caller, id) ==
    LET res == getTaskByIdResult(caller, id) IN
    IF res.tag = "Ok"
    THEN Store("getTaskById", caller, NoArg, [res.val EXCEPT !.updated_at = Some(now)])
    ELSE Reply("getTaskById", caller, id, NoArg, res)
getTaskById(caller, id) == Reply("getTaskById", caller, id, NoArg, getTaskByIdResult(caller, id))

\* the status test without toLowerCase
IsPastDueCaseSensitive(task, time) ==
    /\ BigLt(task.due_in_minutes, time)
    /\ task.status # Txt_completed
IsPastDue(task, time) ==
    /\ BigLt(task.due_in_minutes, time)
    /\ toLowerCase(task.status) # Txt_completed

getTasksPastDueResult(time) ==
    LET PastDue(task) == IsPastDue(task, time)
        tasksPastDue == SelectSeq(MapValues(taskStorage), PastDue)
    IN IF Len(tasksPastDue) = 0 THEN Err(MsgNoPastDue, NoRef) ELSE Ok(tasksPastDue)

getTasksPastDue(caller) == Reply("getTasksPastDue", caller, NoRef, NoArg, getTasksPastDueResult(now))

getAllEmployeesResult ==
    LET employees == MapValues(employeeStorage)
    IN IF Len(employees) = 0 THEN Err(MsgNoEmployees, NoRef) ELSE Ok(employees)

getAllEmployees(caller) == Reply("getAllEmployees", caller, NoRef, NoArg, getAllEmployeesResult)

getEmployeeByIdResult(id) ==
    LET found == MapGet(employeeStorage, id) IN
    IF found.tag = "None" THEN Err(MsgEmployeeNotFound, id) ELSE Ok(found.val)

getEmployeeById(caller, id) == Reply("getEmployeeById", caller, id, NoArg, getEmployeeByIdResult(id))

\* the tasks that have an assignee, whoever it is
TasksOfEmployeeAny(employeeId) ==
    LET Match(task) == task.employeeId.tag = "Some"
    IN SelectSeq(MapValues(taskStorage), Match)
\* the tasks whose employeeId is Some(employeeId), in store order
TasksOfEmployee(employeeId) ==
    LET Match(task) == task.employeeId.tag = "Some" /\ task.employeeId.val = employeeId
    IN SelectSeq(MapValues(taskStorage), Match)

getTaskByEmployeeIdResult(employeeId) ==
    LET filteredTasks == TasksOfEmployee(employeeId)
    IN IF Len(filteredTasks) = 0 THEN Err(MsgNoTasks, NoRef) ELSE Ok(filteredTasks)

getTaskByEmployeeId(caller, employeeId) ==
    Reply("getTaskByEmployeeId", caller, NoRef, employeeId, getTaskByEmployeeIdResult(employeeId))

\* String.prototype.includes
Includes(s, sub) ==
    \E i \in 0..(Len(s) - Len(sub)) : SubSeq(s, i + 1, i + Len(sub)) = sub

searchTasksResult(searchInput) ==
    LET lowerCaseSearchInput == toLowerCase(searchInput)
        Hit(task) == \/ Includes(toLowerCase(task.title), lowerCaseSearchInput)
                     \/ Includes(toLowerCase(task.description), lowerCaseSearchInput)
        searchedTask == SelectSeq(MapValues(taskStorage), Hit)
    IN IF Len(searchedTask) = 0 THEN Err(MsgNoSearchResult, NoRef) ELSE Ok(searchedTask)

searchTasks(caller, searchInput) ==
    Reply("searchTasks", caller, NoRef, searchInput, searchTasksResult(searchInput))

getTasksByCategoryResult(category) ==
    LET InCategory(task) == task.category = category
        tasksByCategory == SelectSeq(MapValues(taskStorage), InCategory)
    IN IF Len(tasksByCategory) = 0 THEN Err(MsgNoTasksInCategory, NoRef) ELSE Ok(tasksByCategory)

getTasksByCategory(caller, category) ==
    Reply("getTasksByCategory", caller, NoRef, category, getTasksByCategoryResult(category))

\* the status test without toLowerCase
HasStatusCaseSensitive(task, status) == task.status = status
HasStatus(task, status) == toLowerCase(task.status) = toLowerCase(status)

getTasksByStatusResult(status) ==
    IF StrFalsy(status)
    THEN Err(MsgMissingStatus, NoRef)
    ELSE LET Match(task) == HasStatus(task, status)
             tasksByStatus == SelectSeq(MapValues(taskStorage), Match)
         IN IF Len(tasksByStatus) = 0 THEN Err(MsgNoTasksWithStatus, NoRef) ELSE Ok(tasksByStatus)

getTasksByStatus(caller, status) ==
    Reply("getTasksByStatus", caller, NoRef, status, getTasksByStatusResult(status))

\* ((count / total) * 100).toFixed(2), in hundredths of a percent; 0 / 0 is
\* NaN, which toFixed prints as "NaN"
Percentage(count, total) ==
    IF total = 0
    THEN [nan |-> TRUE, hundredths |-> 0]
    ELSE [nan |-> FALSE, hundredths |-> (count * 10000 + (total \div 2)) \div total]

\* the sentence both analyses build from the tasks they look at
Analysis(tasks, time) ==
    LET totalTasks == Len(tasks)
        Completed(task) == task.status = Txt_Completed
        PastDue(task) == IsPastDue(task, time)
        completedTasks == Len(SelectSeq(tasks, Completed))
        pastDueTasks == Len(SelectSeq(tasks, PastDue))
    IN Text(MsgAnalysis, [ percentageCompleted |-> Percentage(completedTasks, totalTasks),
                           percentagePastDue |-> Percentage(pastDueTasks, totalTasks) ])

getTasksAnalysisResult(time) ==
    LET tasks == MapValues(taskStorage)
    IN IF Len(tasks) = 0 THEN Text(MsgNoTasks, None) ELSE Analysis(tasks, time)

getTasksAnalysis(caller) == Reply("getTasksAnalysis", caller, NoRef, NoArg, getTasksAnalysisResult(now))

\* the emptiness test of getEmployeeAnalysis made on the whole store
NoTasksToAnalyseInStore(tasks, filteredTasks) == Len(tasks) = 0
NoTasksToAnalyse(tasks, filteredTasks) == Len(filteredTasks) = 0

getEmployeeAnalysisResult(employeeId, time) ==
    LET tasks == MapValues(taskStorage)
        filteredTasks == TasksOfEmployee(employeeId)
    IN IF NoTasksToAnalyse(tasks, filteredTasks)
       THEN Text(MsgNoTasksForEmployee, None)
       ELSE Analysis(filteredTasks, time)

getEmployeeAnalysis(caller, employeeId) ==
    Reply("getEmployeeAnalysis", caller, NoRef, employeeId, getEmployeeAnalysisResult(employeeId, now))

\* one call received: the handler runs to completion
Received(Handler) ==
    /\ calls < MaxCalls
    /\ calls' = calls + 1
    /\ Handler
    /\ assignedTo' =
          IF last'.op = "assignEmployee" /\ last'.res.tag = "Ok"
          THEN [k \in DOMAIN assignedTo \cup {last'.id} |-> IF k = last'.id THEN last'.arg ELSE assignedTo[k]]
          ELSE assignedTo
    /\ again' =
          /\ last.op = "completedTask" /\ last.res.tag = "Ok"
          /\ last'.op = "completedTask" /\ last'.id = last.id /\ last'.caller = last.caller

Next ==
    \/ Tick
    \/ \E c \in Principals, p \in TaskPayloads : Received(addTask(c, p))
    \/ \E c \in Principals, p \in EmployeePayloads : Received(addEmployee(c, p))
    \/ \E c \in Principals, t \in Ids, e \in Ids : Received(assignEmployee(c, t, e))
    \/ \E c \in Principals, t \in Ids : Received(completedTask(c, t))
    \/ \E c \in Principals, t \in Ids, p \in UpdatePayloads : Received(updateTask(c, t, p))
    \/ \E c \in Principals, t \in Ids : Received(deleteTask(c, t))
    \/ \E c \in Principals, t \in Ids, s \in StatusInputs : Received(updateTaskStatus(c, t, s))
    \/ \E c \in Principals : Received(getAllTasks(c))
    \/ \E c \in Principals, t \in Ids : Received(getTaskById(c, t))
    \/ \E c \in AnyCaller : Received(getTasksPastDue(c))
    \/ \E c \in AnyCaller : Received(getAllEmployees(c))
    \/ \E c \in AnyCaller, e \in Ids : Received(getEmployeeById(c, e))
    \/ \E c \in AnyCaller, e \in Ids : Received(getTaskByEmployeeId(c, e))
    \/ \E c \in AnyCaller, q \in SearchInputs : Received(searchTasks(c, q))
    \/ \E c \in AnyCaller, q \in Categories : Received(getTasksByCategory(c, q))
    \/ \E c \in AnyCaller, q \in StatusQueries : Received(getTasksByStatus(c, q))
    \/ \E c \in AnyCaller : Received(getTasksAnalysis(c))
    \/ \E c \in AnyCaller, e \in Ids : Received(getEmployeeAnalysis(c, e))

Spec == Init /\ [][Next]_vars
(***************************************************************************)
(* Properties.  A step with calls' = calls + 1 is one call; last' is that  *)
(* call and its reply, the unprimed stores are the stores it found.        *)
(***************************************************************************)
\* t + d * 60,000,000,000 for a time t and a whole number d (60 limbs of 10^9)
ExpectedDue(t, n) == [hi |-> t.hi + 60 * (n.halves \div 2), lo |-> t.lo]
WholeNumber(n) == ~n.nan /\ n.halves % 2 = 0
StoresUnchanged == taskStorage' = taskStorage /\ employeeStorage' = employeeStorage
OwnerCheckedOps ==
    {"getTaskById", "updateTask", "deleteTask", "completedTask", "updateTaskStatus", "assignEmployee"}

\* C1: a call of getTaskById, updateTask, deleteTask, completedTask,
\* updateTaskStatus or assignEmployee on a stored task by anyone but its creator
\* is answered with the authorization error and changes neither store; made by
\* the creator it succeeds, unless the operation's own input check (the duration
\* of updateTask, the employee of assignEmployee) refuses it.
C1_OnlyCreatorMayAct ==
    [][ (calls' = calls + 1 /\ last'.op \in OwnerCheckedOps /\ last'.id \in DOMAIN taskStorage) =>
          IF taskStorage[last'.id].creator # last'.caller
          THEN last'.res = Err(MsgNotAuthorized, NoRef) /\ StoresUnchanged
          ELSE \/ last'.res.tag = "Ok"
               \/ last'.op = "updateTask" /\ ~WholeNumber(last'.arg.due_in_minutes)
               \/ last'.op = "assignEmployee" /\ last'.res = Err(MsgEmployeeNotFound, last'.arg)
      ]_vars
C1_Witness ==
    /\ last.op = "deleteTask"
    /\ last.id \in DOMAIN taskStorage
    /\ taskStorage[last.id].creator # last.caller
    /\ last.res = Err(MsgNotAuthorized, NoRef)

\* C2: assignEmployee by the creator of a stored task, with an employee id that
\* is no key of the employee store, is answered with the employee-not-found error
\* and leaves the task store as it was.
C2_MissingEmployeeRefused ==
    [][ ( /\ calls' = calls + 1
          /\ last'.op = "assignEmployee"
          /\ last'.id \in DOMAIN taskStorage
          /\ taskStorage[last'.id].creator = last'.caller
          /\ last'.arg \notin DOMAIN employeeStorage ) =>
          (last'.res = Err(MsgEmployeeNotFound, last'.arg) /\ taskStorage' = taskStorage)
      ]_vars

\* C3: once deleteTask has removed a task, in every later state getAllTasks
\* returns no task with that id and getTaskById on it answers not-found to every
\* caller.
TasksOf(res) == IF res.tag = "Ok" THEN {res.val[i] : i \in 1..Len(res.val)} ELSE {}
C3_DeletedStaysGone ==
    \A id \in deleted :
        /\ \A t \in TasksOf(getAllTasksResult) : t.id # id
        /\ \A c \in Principals : getTaskByIdResult(c, id) = Err(MsgTaskNotFound, id)
        /\ (last.op = "getTaskById" /\ last.id = id) => last.res = Err(MsgTaskNotFound, id)
        /\ last.op = "getAllTasks" => \A t \in TasksOf(last.res) : t.id # id
C3_Witness ==
    /\ last.op = "getTaskById"
    /\ last.id \in deleted
    /\ last.res = Err(MsgTaskNotFound, last.id)

\* C4: after a successful completedTask or updateTaskStatus the stored task's
\* updated_at is present and equals the time of that call.
C4_StatusChangeStampsUpdatedAt ==
    [][ ( /\ calls' = calls + 1
          /\ last'.op \in {"completedTask", "updateTaskStatus"}
          /\ last'.res.tag = "Ok" ) =>
          taskStorage'[last'.id].updated_at = Some(now)
      ]_vars

\* C5: a successful addTask or updateTask at time t with duration d stores
\* due_in_minutes = t + d * 60,000,000,000 (the old value is replaced, not added
\* to), and every other step leaves the due timestamp of every stored task as it
\* was; so each stored task's due timestamp is that of its latest addTask or
\* updateTask.
C5_DueIsTimePlusDuration ==
    [][ \A id \in DOMAIN taskStorage' :
          IF calls' = calls + 1 /\ last'.op \in {"addTask", "updateTask"}
             /\ last'.res.tag = "Ok" /\ last'.id = id
          THEN taskStorage'[id].due_in_minutes = ExpectedDue(now, last'.arg.due_in_minutes)
          ELSE id \in DOMAIN taskStorage
               /\ taskStorage'[id].due_in_minutes = taskStorage[id].due_in_minutes
      ]_vars
C5_Witness ==
    /\ last.op = "updateTask"
    /\ last.res.tag = "Ok"
    /\ taskStorage[last.id].created_date # now
    /\ taskStorage[last.id].due_in_minutes = ExpectedDue(now, last.arg.due_in_minutes)

\* C6: a successful updateTask replaces the title, description, category, due
\* timestamp and updated_at (= the time of the call) of that task and nothing
\* else: its id, status, employeeId, creator and created_date, every other task
\* and the employee store stay as they were.
C6_UpdateTaskFrame ==
    [][ (calls' = calls + 1 /\ last'.op = "updateTask" /\ last'.res.tag = "Ok") =>
          LET old == taskStorage[last'.id]
              payload == last'.arg
          IN /\ DOMAIN taskStorage' = DOMAIN taskStorage
             /\ taskStorage'[last'.id] =
                  [ id |-> old.id,
                    title |-> payload.title,
                    creator |-> old.creator,
                    description |-> payload.description,
                    status |-> old.status,
                    due_in_minutes |-> ExpectedDue(now, payload.due_in_minutes),
                    updated_at |-> Some(now),
                    created_date |-> old.created_date,
                    employeeId |-> old.employeeId,
                    category |-> payload.category ]
             /\ last'.res.val = taskStorage'[last'.id]
             /\ \A k \in DOMAIN taskStorage \ {last'.id} : taskStorage'[k] = taskStorage[k]
             /\ employeeStorage' = employeeStorage
      ]_vars
C6_Witness ==
    /\ last.op = "updateTask"
    /\ last.res.tag = "Ok"
    /\ Cardinality(DOMAIN taskStorage) = 2
    /\ taskStorage[last.id].title = Txt_B
    /\ taskStorage[last.id].status = Txt_Created

\* C7: addTask with an empty title, an empty description or a duration that is
\* zero or not a number answers with the validation error, adds no task and
\* changes neither store; addEmployee does the same for an empty name or email.
C7_InvalidInputRefused ==
    [][ ( /\ calls' = calls + 1
          /\ \/ /\ last'.op = "addTask"
                /\ \/ Len(last'.arg.title) = 0
                   \/ Len(last'.arg.description) = 0
                   \/ last'.arg.due_in_minutes \in {Num(0), NaN}
             \/ /\ last'.op = "addEmployee"
                /\ (Len(last'.arg.name) = 0 \/ Len(last'.arg.email) = 0) ) =>
          (last'.res = Err(MsgInvalid, NoRef) /\ StoresUnchanged)
      ]_vars
C7_Witness ==
    /\ last.op = "addTask"
    /\ last.arg.due_in_minutes = Num(0)
    /\ last.res = Err(MsgInvalid, NoRef)

\* C8: every call ends in a reply that is a success value (a record, a list or
\* the text of an analysis) or a failure value with a message; none ends in a
\* fault that leaves the handler.
C8_EveryCallReplies == last.res.tag \in {"Ok", "Err", "Text"}

\* C9: a successful addTask returns and stores a task whose creator is the
\* caller and whose id is the id of no task created before (deleted ones
\* included); it replaces no stored task.
C9_CreatedTaskIsFreshAndOwned ==
    [][ (calls' = calls + 1 /\ last'.op = "addTask" /\ last'.res.tag = "Ok") =>
          LET task == last'.res.val
          IN /\ task.creator = last'.caller
             /\ task.id \notin created
             /\ task.id \notin DOMAIN taskStorage
             /\ DOMAIN taskStorage' = DOMAIN taskStorage \cup {task.id}
             /\ taskStorage'[task.id] = task
             /\ \A k \in DOMAIN taskStorage : taskStorage'[k] = taskStorage[k]
      ]_vars
C9_Witness ==
    /\ last.op = "addTask"
    /\ last.res.tag = "Ok"
    /\ deleted # {}
    /\ last.caller = "bob"

\* C10: getTasksPastDue returns no task whose status is "Completed", whatever
\* the task's due timestamp: neither in the reply to a call nor, in the state
\* that call was made in, at any other time.
ProbeTimes == {BigAdd(StartTime, BigMul(BigNorm(0, m), NanosPerMinute)) : m \in 0..(MaxMinutes + 1)}
C10_PastDueExcludesCompleted ==
    last.op = "getTasksPastDue" =>
        /\ \A t \in TasksOf(last.res) : t.status # Txt_Completed
        /\ \A time \in ProbeTimes : \A t \in TasksOf(getTasksPastDueResult(time)) : t.status # Txt_Completed
C10_Witness ==
    /\ last.op = "getTasksPastDue"
    /\ \E id \in DOMAIN taskStorage :
          /\ taskStorage[id].status = Txt_Completed
          /\ BigLt(taskStorage[id].due_in_minutes, now)

\* C11: the task a successful addTask has just stored is not among the tasks
\* getTasksPastDue returns at the time of its creation; and at every time
\* getTasksPastDue returns a stored task exactly when that time is strictly
\* greater than the task's due timestamp and its status is not completed.
C11_NewTaskNotPastDue ==
    /\ (last.op = "addTask" /\ last.res.tag = "Ok") =>
          last.res.val \notin TasksOf(getTasksPastDueResult(last.res.val.created_date))
    /\ \A time \in ProbeTimes \cup {now} : \A id \in DOMAIN taskStorage :
          taskStorage[id] \in TasksOf(getTasksPastDueResult(time)) <=>
            /\ BigLt(taskStorage[id].due_in_minutes, time)
            /\ toLowerCase(taskStorage[id].status) # Txt_completed

\* the stored tasks whose status is s when letter case is ignored
TasksWithStatus(s) ==
    {taskStorage[k] : k \in {i \in DOMAIN taskStorage : toLowerCase(taskStorage[i].status) = toLowerCase(s)}}
\* res holds exactly the tasks of the set expected, each once, or is a failure
\* when there are none
Exactly(res, expected) ==
    IF expected = {}
    THEN res.tag = "Err"
    ELSE /\ res.tag = "Ok"
         /\ TasksOf(res) = expected
         /\ Len(res.val) = Cardinality(expected)
\* the arguments that differ from s in letter case at most
SameIgnoringCase(s) == {s2 \in StatusQueries : toLowerCase(s2) = toLowerCase(s)}

\* C12 as stated: for every status text s, the empty one included,
\* getTasksByStatus(s) returns exactly the tasks whose status equals s when
\* letter case is ignored (a failure when there are none), and an argument
\* that differs from s only in letter case gives the same outcome.
C12_ByStatusForEveryText ==
    last.op = "getTasksByStatus" =>
        /\ Exactly(last.res, TasksWithStatus(last.arg))
        /\ \A s2 \in SameIgnoringCase(last.arg) : getTasksByStatusResult(s2) = last.res

\* C12 amended: for every non-empty status text s, getTasksByStatus(s) returns
\* exactly the tasks whose status equals s when letter case is ignored (the
\* no-tasks-with-this-status failure when there are none), and an argument
\* that differs from s only in letter case gives the same outcome; for the
\* empty text it fails with the missing-input failure whatever the store holds.
C12_ByStatusIgnoresCase ==
    last.op = "getTasksByStatus" =>
        /\ IF last.arg = Txt_Empty
           THEN last.res = Err(MsgMissingStatus, NoRef)
           ELSE LET expected == TasksWithStatus(last.arg) IN
                /\ Exactly(last.res, expected)
                /\ expected = {} => last.res = Err(MsgNoTasksWithStatus, NoRef)
        /\ \A s2 \in SameIgnoringCase(last.arg) : getTasksByStatusResult(s2) = last.res
\* a query answered with a task whose status is spelled in another case
C12_Witness ==
    /\ last.op = "getTasksByStatus"
    /\ last.res.tag = "Ok"
    /\ \E t \in TasksOf(last.res) : t.status # last.arg

\* C13: completedTask of a stored task by its creator succeeds and leaves the
\* task with the status "Completed", whatever its status was; so when it is
\* called twice in a row on the same task, the second call succeeds as the
\* first did and the status is "Completed" after each.
C13_CompleteTwice ==
    /\ [][ ( /\ calls' = calls + 1
              /\ last'.op = "completedTask"
              /\ last'.id \in DOMAIN taskStorage
              /\ taskStorage[last'.id].creator = last'.caller ) =>
              /\ last'.res.tag = "Ok"
              /\ last'.res.val.status = Txt_Completed
              /\ taskStorage'[last'.id] = last'.res.val
        ]_vars
    /\ [](again => /\ last.res.tag = "Ok"
                   /\ taskStorage[last.id].status = Txt_Completed)
C13_Witness ==
    /\ again
    /\ last.res.tag = "Ok"
    /\ taskStorage[last.id].status = Txt_Completed

\* C14: a successful assignEmployee(taskId, employeeId) sets the employeeId of
\* that task to Some(employeeId), whatever it was before, and changes nothing
\* else: the task's updated_at and every other field, every other task and the
\* employee store are as they were.
C14_AssignEmployeeFrame ==
    [][ (calls' = calls + 1 /\ last'.op = "assignEmployee" /\ last'.res.tag = "Ok") =>
          /\ last'.id \in DOMAIN taskStorage
          /\ taskStorage' = [taskStorage EXCEPT ![last'.id].employeeId = Some(last'.arg)]
          /\ taskStorage'[last'.id].updated_at = taskStorage[last'.id].updated_at
          /\ last'.res.val = taskStorage'[last'.id]
          /\ employeeStorage' = employeeStorage
      ]_vars
\* an employee of the store has been assigned to a task never updated
C14_Witness ==
    /\ last.op = "assignEmployee"
    /\ last.res.tag = "Ok"
    /\ last.arg \in DOMAIN employeeStorage
    /\ taskStorage[last.id].employeeId = Some(last.arg)
    /\ taskStorage[last.id].updated_at = None

\* the stored tasks whose latest successful assignEmployee named e
LatestAssigned(e) ==
    {taskStorage[k] : k \in {i \in DOMAIN taskStorage : i \in DOMAIN assignedTo /\ assignedTo[i] = e}}

C16_GetAllIgnoresCaller ==
    last.op = "getAllTasks" =>
        /\ Exactly(last.res, {taskStorage[k] : k \in DOMAIN taskStorage})
        /\ DOMAIN taskStorage = {} => last.res = Err(MsgNoTasks, NoRef)
        /\ \A k \in DOMAIN taskStorage :
              getTaskByIdResult(last.caller, k) = Err(MsgNotAuthorized, NoRef) =>
                taskStorage[k] \in TasksOf(last.res)
\* getAllTasks has returned a task that getTaskById refuses to the same caller
C16_Witness ==
    /\ last.op = "getAllTasks"
    /\ \E t \in TasksOf(last.res) :
          /\ t.creator # last.caller
          /\ getTaskByIdResult(last.caller, t.id) = Err(MsgNotAuthorized, NoRef)

QueryOps ==
    { "getTaskById", "getAllTasks", "getTasksByStatus", "getTasksByCategory",
      "getTaskByEmployeeId", "searchTasks", "getTasksPastDue", "getTasksAnalysis",
      "getEmployeeAnalysis", "getAllEmployees", "getEmployeeById" }

\* C17: a call of any query (getTaskById, getAllTasks, getTasksByStatus,
\* getTasksByCategory, getTaskByEmployeeId, searchTasks, getTasksPastDue,
\* getTasksAnalysis, getEmployeeAnalysis, getAllEmployees, getEmployeeById)
\* leaves the task store and the employee store as they were, whether its
\* reply is a success or a failure.
C17_QueriesWriteNothing ==
    [][ (calls' = calls + 1 /\ last'.op \in QueryOps) => StoresUnchanged ]_vars
\* a query has succeeded while both stores hold a record
C17_Witness ==
    /\ last.op \in QueryOps
    /\ last.res.tag = "Ok"
    /\ DOMAIN taskStorage # {}
    /\ DOMAIN employeeStorage # {}

\* a percentage computed with a divisor above zero: a number from 0.00 to 100.00
Computed(p) == ~p.nan /\ p.hundredths >= 0 /\ p.hundredths <= 10000
ComputedAnalysis(res) ==
    /\ res.msg = MsgAnalysis
    /\ Computed(res.val.percentageCompleted)
    /\ Computed(res.val.percentagePastDue)

\* C18: getTasksAnalysis returns the no-tasks message exactly when the task
\* store is empty, and getEmployeeAnalysis(e) returns its no-tasks message
\* exactly when no stored task has the assignee e; in every other state both
\* percentages are computed with a divisor above zero.
C18_AnalysisGuardsEmptySet ==
    /\ last.op = "getTasksAnalysis" =>
          IF DOMAIN taskStorage = {}
          THEN last.res = Text(MsgNoTasks, None)
          ELSE ComputedAnalysis(last.res)
    /\ last.op = "getEmployeeAnalysis" =>
          /\ IF \A k \in DOMAIN taskStorage : taskStorage[k].employeeId # Some(last.arg)
             THEN last.res = Text(MsgNoTasksForEmployee, None)
             ELSE ComputedAnalysis(last.res)
          /\ \A e \in Ids :
                IF \A k \in DOMAIN taskStorage : taskStorage[k].employeeId # Some(e)
                THEN getEmployeeAnalysisResult(e, now) = Text(MsgNoTasksForEmployee, None)
                ELSE ComputedAnalysis(getEmployeeAnalysisResult(e, now))
\* getEmployeeAnalysis has found no task of the employee in a store that holds tasks
C18_Witness ==
    /\ last.op = "getEmployeeAnalysis"
    /\ last.res.msg = MsgNoTasksForEmployee
    /\ DOMAIN taskStorage # {}

\* C19: in every reachable state every stored task has a non-empty title and
\* a non-empty description.
C19_TitleAndDescriptionNonEmpty ==
    \A k \in DOMAIN taskStorage :
        ~StrFalsy(taskStorage[k].title) /\ ~StrFalsy(taskStorage[k].description)

\* C20: in every reachable state the employeeId of every stored task, when
\* present, is a key of the employee store.
C20_AssigneeIsAnEmployee ==
    \A k \in DOMAIN taskStorage :
        taskStorage[k].employeeId.tag = "Some" =>
            taskStorage[k].employeeId.val \in DOMAIN employeeStorage

\* C21: no step changes the id, the creator or the created_date of a task that
\* stays in the store (so no sequence of updateTask, completedTask,
\* updateTaskStatus and assignEmployee calls does, from the task's creation
\* to its deletion), and every task is stored under the key that is its id.
C21_IdentityIsFixed ==
    /\ [][ \A k \in DOMAIN taskStorage \cap DOMAIN taskStorage' :
              /\ taskStorage'[k].id = taskStorage[k].id
              /\ taskStorage'[k].creator = taskStorage[k].creator
              /\ taskStorage'[k].created_date = taskStorage[k].created_date
        ]_vars
    /\ [](\A k \in DOMAIN taskStorage : taskStorage[k].id = k)
\* a task updated at a later time than its creation has then been assigned
C21_Witness ==
    /\ last.op = "assignEmployee"
    /\ last.res.tag = "Ok"
    /\ taskStorage[last.id].id = last.id
    /\ taskStorage[last.id].creator = last.caller
    /\ taskStorage[last.id].updated_at.tag = "Some"
    /\ taskStorage[last.id].updated_at # Some(taskStorage[last.id].created_date)

\* the tasks getTasksByStatus("Completed") returns
CompletedByStatus == TasksOf(getTasksByStatusResult(Txt_Completed))
\* the tasks among ts that the status test of getTasksPastDue excludes
CompletedForPastDue(ts) == {t \in ts : toLowerCase(t.status) = Txt_completed}

\* C22: the analyses count a task as completed exactly when
\* getTasksByStatus("Completed") returns it and the status test of
\* getTasksPastDue excludes it: the completed percentage of getTasksAnalysis
\* is that of these tasks among all stored tasks, and the one of
\* getEmployeeAnalysis(e) that of these tasks among the tasks assigned to e.
C22_AnalysisAgreesWithByStatus ==
    /\ (last.op = "getTasksAnalysis" /\ last.res.msg = MsgAnalysis) =>
          LET all == {taskStorage[k] : k \in DOMAIN taskStorage} IN
          /\ CompletedByStatus = CompletedForPastDue(all)
          /\ last.res.val.percentageCompleted =
                Percentage(Cardinality(CompletedByStatus), Cardinality(all))
    /\ (last.op = "getEmployeeAnalysis" /\ last.res.msg = MsgAnalysis) =>
          LET mine == TasksOf(getTaskByEmployeeIdResult(last.arg)) IN
          /\ CompletedByStatus \cap mine = CompletedForPastDue(mine)
          /\ last.res.val.percentageCompleted =
                Percentage(Cardinality(CompletedByStatus \cap mine), Cardinality(mine))
====
